---- MODULE Spec2Model ----
(***************************************************************************)
(* Telemetry buffering and flush subsystem of the OASIS Climate            *)
(* integration (custom_components/oasis_climate/telemetry_manager.py).     *)
(*                                                                         *)
(* One TelemetryManager on one asyncio event loop.  Every action is the    *)
(* code that runs between two suspension points of a coroutine (or a whole *)
(* synchronous method), so the interleavings of the actions are the        *)
(* interleavings the event loop can produce.                               *)
(*                                                                         *)
(* Time is counted in ticks.  A sleeping coroutine records how many ticks  *)
(* it still has to wait; Tick lets one tick pass for all sleepers and is   *)
(* only possible while no sleeper is due.                                  *)
(***************************************************************************)
EXTENDS Integers, Sequences, FiniteSets, TLC

\* ---- bounds -------------------------------------------------------------
MaxEvents == 3      \* state-change events delivered to callbacks
MaxStarts == 2      \* async_start() invocations on the manager
MaxBatch == 2       \* largest batch_size in the options / update_settings
MaxInterval == 2    \* largest flush_interval in the options / update_settings
FewEvents == 1      \* events delivered where the buffer is not the subject
MaxReloads == 1     \* reloads of the config entry

\* ---- program constants --------------------------------------------------
GraceDelay == 1     \* asyncio.sleep(1) in async_start, rounded up to one tick
SetupStarts == 1    \* async_setup_entry calls async_start() once per manager
MinBatch == 1       \* smallest batch size the number entity accepts
MinInterval == 1    \* smallest flush interval it accepts (one step of 60 s = one tick)
DefaultBatch == 20  \* options.get("telemetry_batch_size", 20)
DefaultInterval == 5    \* options.get("telemetry_flush_interval", 300): 300 s in ticks
DefaultEnabled == TRUE  \* options.get("telemetry_enabled", True)

STATE_ON == "on"
STATE_OFF == "off"
STATE_UNAVAILABLE == "unavailable"
STATE_UNKNOWN == "unknown"
NoState == "<no new_state>"   \* event.data.get("new_state") is None

\* raw states an event can carry
RawStates == {STATE_ON, STATE_OFF, STATE_UNAVAILABLE, STATE_UNKNOWN,
              "21.5", "abc", NoState}

Rejected == -1000000          \* the callback returned without a reading

\* ---- coordinator snapshots ----------------------------------------------
\* coordinator.data["thermostats"]: an insertion-ordered dict of thermostats,
\* each with an insertion-ordered sensors_map.  "" stands for a missing or
\* empty (falsy) local_id.
Sensor(id, metaLocal, topLocal) ==
    [id |-> id, meta_local_id |-> metaLocal, local_id |-> topLocal]

SnapEmpty == << >>
SnapOne ==
    << [id |-> "T1",
        sensors_map |-> << Sensor("S1", "e1", ""), Sensor("S2", "", "") >>] >>
SnapTwo ==
    << [id |-> "T2", sensors_map |-> << Sensor("S3", "", "e1") >>],
       [id |-> "T1", sensors_map |-> << Sensor("S1", "e1", "e2") >>],
       [id |-> "T3", sensors_map |-> << >>] >>

Snapshots == {SnapEmpty, SnapOne, SnapTwo}

VARIABLES
    options,        \* entry.options: the persisted telemetry settings
    reload,         \* the update listener has been fired and has not run yet
    retired,        \* the managers a reload has replaced, oldest first
    enabled,        \* self._enabled
    batch_size,     \* self._batch_size
    flush_interval, \* self._flush_interval
    buffer,         \* self._buffer
    append_size,    \* batch_size at the append of the newest buffered reading,
                    \* 0 while the buffer is empty (history, not program state)
    listeners,      \* self._listeners: one entry per registered subscription
    flush_task,     \* self._flush_task: 0 = None, else index into loops
    data,           \* coordinator.data["thermostats"]
    starts,         \* async_start() coroutines suspended in the grace delay
    nstarts,        \* number of async_start() calls made so far
    loops,          \* _periodic_flush_loop() tasks, in order of creation
    flushes,        \* count-triggered async_flush() tasks that have not finished
    sent,           \* calls made to client.async_send_telemetry, in order
    clock,          \* number of events delivered; last_changed of the latest
    last            \* the operation that produced this state

vars == << options, reload, retired, enabled, batch_size, flush_interval, buffer, append_size,
           listeners, flush_task,
           data, starts, nstarts, loops, flushes, sent, clock, last >>

\* a sequence without its i-th element
Remove(seq, i) == SubSeq(seq, 1, i - 1) \o SubSeq(seq, i + 1, Len(seq))

\* last: the operation that led to the state, for the operations the
\* properties tell apart, with one detail of it; Other for the rest
Other == [op |-> "other", info |-> 0]
\* the config entry has just been reloaded
Reloaded == [op |-> "reload", info |-> 0]
\* async_flush_all returned at line 179: readings buffered, no thermostat
NoGateway == [op |-> "no_gateway", info |-> 0]

\* how a send call ended: 1 = it returned False, 2 = it raised
Failure(outcome) == IF outcome = "raise" THEN [op |-> "send_failed", info |-> 2]
                    ELSE IF outcome = "false" THEN [op |-> "send_failed", info |-> 1]
                    ELSE Other

Live == {"new", "sleep", "send"}     \* a task that is neither done nor cancelled

\* ---- value normalizer (_on_state_change, lines 121-137) -------------------
\* float(str) of the tokens in RawStates, in tenths; Rejected for ValueError
ParseFloat(raw) == IF raw = "21.5" THEN 215 ELSE Rejected

\* (a variant without the on/off rules: every state goes to float())
NormalizeNoBinary(raw) ==
    IF raw = NoState \/ raw \in {STATE_UNAVAILABLE, STATE_UNKNOWN} THEN Rejected
    ELSE ParseFloat(raw)

Normalize(raw) ==
    IF raw = NoState \/ raw \in {STATE_UNAVAILABLE, STATE_UNKNOWN} THEN Rejected
    ELSE IF raw = STATE_ON THEN 10
    ELSE IF raw = STATE_OFF THEN 0
    ELSE ParseFloat(raw)

\* the guard at the top of the callback: `if not self._enabled: return`
IgnoresDisabled(en) == TRUE
Enabled(en) == en

\* the count trigger: `if len(self._buffer) >= self._batch_size`
ShouldFlushExact(len, size) == len = size
ShouldFlushOffByOne(len, size) == len > size
ShouldFlush(len, size) == len >= size

\* ---- mapping table (async_start, lines 58-87) ----------------------------
\* meta.get("local_id") or s_data.get("local_id")
TopLevelFirst(s) == IF s.local_id # "" THEN s.local_id ELSE s.meta_local_id
LocalSource(s) == IF s.meta_local_id # "" THEN s.meta_local_id ELSE s.local_id

\* (a variant whose callbacks all see the sensor the loop visited last)
SensorEntriesLateBound(t) ==
    LET keep == SelectSeq(t.sensors_map, LAMBDA s : LocalSource(s) # "")
    IN  [k \in 1..Len(keep) |->
            [thermostat |-> t.id,
             sensor |-> t.sensors_map[Len(t.sensors_map)].id,
             entity |-> LocalSource(keep[k])]]

SensorEntries(t) ==
    LET keep == SelectSeq(t.sensors_map, LAMBDA s : LocalSource(s) # "")
    IN  [k \in 1..Len(keep) |->
            [thermostat |-> t.id, sensor |-> keep[k].id,
             entity |-> LocalSource(keep[k])]]

RECURSIVE MappingTable(_)
MappingTable(ths) ==
    IF ths = << >> THEN << >>
    ELSE SensorEntries(Head(ths)) \o MappingTable(Tail(ths))

\* ---- async_stop (lines 96-108) -------------------------------------------
\* `while self._listeners: self._listeners.pop()()`
PopOne(ls) == IF ls = << >> THEN ls ELSE SubSeq(ls, 1, Len(ls) - 1)
RemoveListeners(ls) == << >>

\* self._flush_task.cancel(): a task that already finished is not affected
\* (a variant that cannot interrupt a send in flight)
CancelUnlessSending(task) ==
    IF task.pc \in {"new", "sleep"} THEN [task EXCEPT !.pc = "cancelled"] ELSE task
Cancel(task) == IF task.pc \in Live THEN [task EXCEPT !.pc = "cancelled"] ELSE task

\* (a variant that clears the handle without cancelling the task)
ForgetFlushTask(lp, ft) == lp
CancelFlushTask(lp, ft) == IF ft # 0 THEN [lp EXCEPT ![ft] = Cancel(@)] ELSE lp

\* the clean slate async_start asks for on its first line
SkipStop(ls) == ls
StartStop(ls) == RemoveListeners(ls)

\* ---- async_flush_all (lines 172-185) -------------------------------------
\* first_t_dev_id = list(thermostats.keys())[0]
LastThermostat(ths) == ths[Len(ths)].id
FirstThermostat(ths) == ths[1].id

\* ---- async_flush (lines 190-206) -----------------------------------------
\* readings_to_send = list(self._buffer)
ReversedCopy(buf) == [i \in 1..Len(buf) |-> buf[Len(buf) + 1 - i]]
AliasOfBuffer(buf) == << >>
Snapshot(buf) == buf
\* self._buffer.clear()
KeepBuffer(buf) == buf
Cleared(buf) == << >>
\* the buffer after the send has finished with the given outcome
RestoreOnFailure(outcome, batch, buf) == IF outcome = "ok" THEN buf ELSE batch \o buf
AfterSend(outcome, batch, buf) == buf

\* outcomes of client.async_send_telemetry: True, False (a JSON null body),
\* or an exception (OasisApiError for HTTP >= 400 and connection errors)
Outcomes == {"ok", "false", "raise"}

\* ---- the periodic loop's sleep (line 162) --------------------------------
\* asyncio.sleep(self._flush_interval): the duration is fixed when the sleep
\* begins; slept counts the ticks that have passed since
NewSleep(interval) == [dur |-> interval, slept |-> 0]
\* the sleep is over
DueReread(sl, interval) == sl.slept >= interval
Due(sl, interval) == sl.slept >= sl.dur

NoSleep == [dur |-> 0, slept |-> 0]

\* ---- entry options -------------------------------------------------------
\* entry.options is a dict that may lack any of the three keys.  Its numbers
\* are the Python numbers as persisted, written in tenths (15 stands for 1.5);
\* the manager's batch_size and flush_interval variables hold whole numbers.
OptionKeys == {"telemetry_enabled", "telemetry_batch_size", "telemetry_flush_interval"}

Tenths(n) == n * 10
\* int(value) of a non-negative number
Truncate(v) == v \div 10
\* the whole number a persisted number stands for
Whole(v) == v \div 10

\* options.get(key, default)
Setting(o, key, default) == IF key \in DOMAIN o THEN o[key] ELSE default

\* the options dicts that hold the given values for the given keys
OptionsOver(keysets, sizes, intervals) ==
    UNION {{[k \in keys |->
               IF k = "telemetry_enabled" THEN en
               ELSE IF k = "telemetry_batch_size" THEN Tenths(size)
               ELSE Tenths(interval)] :
              en \in BOOLEAN, size \in sizes, interval \in intervals} :
           keys \in keysets}

\* ---- initial state: TelemetryManager.__init__ (lines 21-35) --------------
\* the three settings come from the persisted entry options
InitFrom(opts, snaps) ==
    /\ options \in opts
    /\ reload = FALSE
    /\ retired = << >>
    /\ enabled = Setting(options, "telemetry_enabled", DefaultEnabled)
    /\ batch_size = Whole(Setting(options, "telemetry_batch_size",
                                  Tenths(DefaultBatch)))
    /\ flush_interval = Whole(Setting(options, "telemetry_flush_interval",
                                      Tenths(DefaultInterval)))
    /\ buffer = << >>
    /\ append_size = 0
    /\ listeners = << >>
    /\ flush_task = 0
    /\ data \in snaps
    /\ starts = << >>
    /\ nstarts = 0
    /\ loops = << >>
    /\ flushes = << >>
    /\ sent = << >>
    /\ clock = 0
    /\ last = Other

\* options that hold all three keys
InitWith(sizes, intervals, snaps) ==
    InitFrom(OptionsOver({OptionKeys}, sizes, intervals), snaps)

\* ---- update_settings (lines 40-45) ---------------------------------------
\* (a variant that tears the manager down when telemetry is switched off)
UpdateSettingsAndStop(en, size, interval) ==
    /\ enabled' = en
    /\ batch_size' = size
    /\ flush_interval' = interval
    /\ listeners' = IF en THEN listeners ELSE RemoveListeners(listeners)
    /\ loops' = IF en THEN loops ELSE CancelFlushTask(loops, flush_task)
    /\ flush_task' = IF en THEN flush_task ELSE 0
    /\ last' = Other
    /\ UNCHANGED << retired, buffer, append_size, data, starts, nstarts,
                    flushes, sent, clock >>

UpdateSettings(en, size, interval) ==
    /\ enabled' = en
    /\ batch_size' = size
    /\ flush_interval' = interval
    /\ last' = Other
    /\ UNCHANGED << retired, buffer, append_size, listeners, flush_task,
                    data, starts, nstarts, loops, flushes, sent, clock >>

\* ---- async_update_telemetry_config (helpers.py, lines 10-32) --------------
\* new_options = {**entry.options, key: value}
OnlyKey(o, key, value) == [k \in {key} |-> value]
NewOptions(o, key, value) ==
    [k \in DOMAIN o \cup {key} |-> IF k = key THEN value ELSE o[k]]

\* value: a boolean for telemetry_enabled, else a number in tenths.  A call
\* that would change neither the manager nor the options is left out.
UpdateTelemetryConfig(key, value) ==
    LET new_enabled == IF key = "telemetry_enabled" THEN value ELSE enabled
        new_batch == IF key = "telemetry_batch_size" THEN Truncate(value)
                     ELSE batch_size
        new_interval == IF key = "telemetry_flush_interval" THEN Truncate(value)
                        ELSE flush_interval
    IN  /\ \/ << new_enabled, new_batch, new_interval >>
                 # << enabled, batch_size, flush_interval >>
           \/ NewOptions(options, key, value) # options
        /\ UpdateSettings(new_enabled, new_batch, new_interval)
        /\ options' = NewOptions(options, key, value)
        /\ reload' = (reload \/ NewOptions(options, key, value) # options)

\* ---- the entities that call it (switch.py 76-86, number.py 72-74, 102-104)
\* the values a number entity can be set to between two whole numbers
NativeValues(lo, hi) ==
    {Tenths(n) : n \in lo..hi} \cup {Tenths(n) + 5 : n \in lo..(hi - 1)}

\* async_turn_on / async_turn_off
SetSwitch(on) == UpdateTelemetryConfig("telemetry_enabled", on)

\* async_set_native_value: the helper is given int(value)
SetNumber(key, native) == UpdateTelemetryConfig(key, Tenths(Truncate(native)))

\* ---- coordinator refresh (coordinator.py, _async_update_data) ------------
\* (a variant in which the manager follows the snapshot incrementally)
DataUpdateResubscribing(snap) ==
    /\ snap # data
    /\ data' = snap
    /\ listeners' = IF listeners = << >> THEN listeners ELSE MappingTable(snap)
    /\ last' = Other
    /\ UNCHANGED << options, reload, retired, enabled, batch_size, flush_interval, buffer, append_size,
                    flush_task, starts, nstarts, loops, flushes, sent,
                    clock >>

DataUpdate(snap) ==
    /\ snap # data
    /\ data' = snap
    /\ last' = Other
    /\ UNCHANGED << options, reload, retired, enabled, batch_size, flush_interval, buffer, append_size, listeners,
                    flush_task, starts, nstarts, loops, flushes, sent,
                    clock >>

\* ---- async_stop called from outside (async_unload_entry) -----------------
\* last.info: 1 when the manager was already stopped
\* (a variant that also cancels the scheduled flush tasks)
StopCancellingFlushes ==
    /\ listeners' = RemoveListeners(listeners)
    /\ loops' = CancelFlushTask(loops, flush_task)
    /\ flush_task' = 0
    /\ flushes' = << >>
    /\ last' = [op |-> "stop",
                info |-> IF listeners = << >> /\ flush_task = 0 THEN 1 ELSE 0]
    /\ UNCHANGED << options, reload, retired, enabled, batch_size, flush_interval, buffer, append_size, data,
                    starts, nstarts, sent, clock >>

\* (a variant that also cancels the async_start calls in flight)
StopCancellingStarts ==
    /\ listeners' = RemoveListeners(listeners)
    /\ loops' = CancelFlushTask(loops, flush_task)
    /\ flush_task' = 0
    /\ starts' = << >>
    /\ last' = [op |-> "stop",
                info |-> IF listeners = << >> /\ flush_task = 0 THEN 1 ELSE 0]
    /\ UNCHANGED << options, reload, retired, enabled, batch_size, flush_interval, buffer, append_size, data,
                    nstarts, flushes, sent, clock >>

\* (a variant that throws the buffered readings away)
StopAndDiscard ==
    /\ listeners' = RemoveListeners(listeners)
    /\ loops' = CancelFlushTask(loops, flush_task)
    /\ flush_task' = 0
    /\ buffer' = << >>
    /\ append_size' = 0
    /\ last' = [op |-> "stop",
                info |-> IF listeners = << >> /\ flush_task = 0 THEN 1 ELSE 0]
    /\ UNCHANGED << options, reload, retired, enabled, batch_size, flush_interval, data, starts,
                    nstarts, flushes, sent, clock >>

Stop ==
    /\ listeners' = RemoveListeners(listeners)
    /\ loops' = CancelFlushTask(loops, flush_task)
    /\ flush_task' = 0
    /\ last' = [op |-> "stop",
                info |-> IF listeners = << >> /\ flush_task = 0 THEN 1 ELSE 0]
    /\ UNCHANGED << options, reload, retired, enabled, batch_size, flush_interval, buffer, append_size, data, starts,
                    nstarts, flushes, sent, clock >>

\* ---- async_start up to its first suspension (lines 50-56) ----------------
\* (a variant that also empties the buffer)
StartCallClearing(limit) ==
    /\ nstarts < limit
    /\ nstarts' = nstarts + 1
    /\ starts' = Append([i \in DOMAIN starts |-> [starts[i] EXCEPT !.overlap = TRUE]],
                        [left |-> GraceDelay, overlap |-> starts # << >>])
    /\ listeners' = StartStop(listeners)
    /\ loops' = CancelFlushTask(loops, flush_task)
    /\ flush_task' = 0
    /\ buffer' = << >>
    /\ append_size' = 0
    /\ last' = Other
    /\ UNCHANGED << options, reload, retired, enabled, batch_size, flush_interval, data,
                    flushes, sent, clock >>

\* overlap: another async_start was in flight at some time during this one
StartCall(limit) ==
    /\ nstarts < limit
    /\ nstarts' = nstarts + 1
    /\ starts' = Append([i \in DOMAIN starts |-> [starts[i] EXCEPT !.overlap = TRUE]],
                        [left |-> GraceDelay, overlap |-> starts # << >>])
    /\ listeners' = StartStop(listeners)
    /\ loops' = CancelFlushTask(loops, flush_task)
    /\ flush_task' = 0
    /\ last' = Other
    /\ UNCHANGED << options, reload, retired, enabled, batch_size, flush_interval, buffer, append_size, data,
                    flushes, sent, clock >>

\* ---- async_start after the grace delay (lines 58-91) ---------------------
\* last.info: 1 when this async_start overlapped another one
StartResume(i) ==
    /\ i \in DOMAIN starts
    /\ starts[i].left = 0
    /\ starts' = Remove(starts, i)
    /\ listeners' = listeners \o MappingTable(data)
    /\ IF flush_task = 0
       THEN /\ loops' = Append(loops, [pc |-> "new", sleep |-> NoSleep,
                                       batch |-> << >>])
            /\ flush_task' = Len(loops) + 1
       ELSE UNCHANGED << loops, flush_task >>
    /\ last' = [op |-> "start_done", info |-> IF starts[i].overlap THEN 1 ELSE 0]
    /\ UNCHANGED << options, reload, retired, enabled, batch_size, flush_interval, buffer, append_size, data, nstarts,
                    flushes, sent, clock >>

\* ---- _on_state_change of subscription k (lines 117-151) ------------------
\* last: an event whose state the normalizer accepts was ignored because
\* telemetry was disabled
OnStateChange(k, raw, limit) ==
    /\ k \in DOMAIN listeners
    /\ clock < limit
    /\ clock' = clock + 1
    /\ LET value == IF Enabled(enabled) THEN Normalize(raw) ELSE Rejected
           reading == [device_id |-> listeners[k].sensor, value |-> value,
                       timestamp |-> clock + 1]
       IN  IF value = Rejected
           THEN /\ UNCHANGED << buffer, append_size, flushes >>
                /\ last' = IF ~enabled /\ Normalize(raw) # Rejected
                           THEN [op |-> "event_ignored", info |-> k]
                           ELSE Other
           ELSE /\ buffer' = Append(buffer, reading)
                /\ append_size' = batch_size
                /\ flushes' =
                     IF ShouldFlush(Len(buffer) + 1, batch_size)
                     THEN Append(flushes, [pc |-> "scheduled",
                                           device_id |-> listeners[k].thermostat,
                                           batch |-> << >>])
                     ELSE flushes
                /\ last' = Other
    /\ UNCHANGED << options, reload, retired, enabled, batch_size, flush_interval, listeners, flush_task,
                    data, starts, nstarts, loops, sent >>

\* ---- a count-triggered async_flush task starts to run (lines 190-202) ----
\* (a variant without the `if not self._buffer: return` of line 192)
FlushRunUnguarded(i) ==
    /\ i \in DOMAIN flushes
    /\ flushes[i].pc = "scheduled"
    /\ flushes' = [flushes EXCEPT ![i].pc = "send",
                                  ![i].batch = Snapshot(buffer)]
    /\ buffer' = Cleared(buffer)
    /\ append_size' = 0
    /\ sent' = Append(sent, [device_id |-> flushes[i].device_id,
                             readings |-> Snapshot(buffer)])
    /\ last' = Other
    /\ UNCHANGED << options, reload, retired, enabled, batch_size, flush_interval, listeners,
                    flush_task, data, starts, nstarts, loops, clock >>

FlushRun(i) ==
    /\ i \in DOMAIN flushes
    /\ flushes[i].pc = "scheduled"
    /\ IF buffer = << >>
       THEN /\ flushes' = Remove(flushes, i)
            /\ UNCHANGED << buffer, append_size, sent >>
       ELSE /\ flushes' = [flushes EXCEPT ![i].pc = "send",
                                          ![i].batch = Snapshot(buffer)]
            /\ buffer' = Cleared(buffer)
            /\ append_size' = 0
            /\ sent' = Append(sent, [device_id |-> flushes[i].device_id,
                                     readings |-> Snapshot(buffer)])
    /\ last' = Other
    /\ UNCHANGED << options, reload, retired, enabled, batch_size, flush_interval, listeners, flush_task,
                    data, starts, nstarts, loops, clock >>

\* ---- its send call finishes (lines 202-206) ------------------------------
FlushSendDone(i, outcome) ==
    /\ i \in DOMAIN flushes
    /\ flushes[i].pc = "send"
    /\ flushes' = Remove(flushes, i)
    /\ buffer' = AfterSend(outcome, flushes[i].batch, buffer)
    /\ UNCHANGED append_size
    /\ last' = Failure(outcome)
    /\ UNCHANGED << options, reload, retired, enabled, batch_size, flush_interval, listeners, flush_task,
                    data, starts, nstarts, loops, sent, clock >>

\* ---- the periodic loop task starts to run: first sleep (lines 160-162) ---
LoopBegin(i) ==
    /\ i \in DOMAIN loops
    /\ loops[i].pc = "new"
    /\ loops' = [loops EXCEPT ![i].pc = "sleep",
                              ![i].sleep = NewSleep(flush_interval)]
    /\ last' = Other
    /\ UNCHANGED << options, reload, retired, enabled, batch_size, flush_interval, buffer, append_size, listeners,
                    flush_task, data, starts, nstarts, flushes, sent,
                    clock >>

\* ---- the loop wakes up: lines 163-164, async_flush_all, async_flush ------
LoopWakeDiscarding(i) ==
    /\ i \in DOMAIN loops
    /\ loops[i].pc = "sleep"
    /\ Due(loops[i].sleep, flush_interval)
    /\ IF buffer # << >> /\ data # << >>
       THEN /\ loops' = [loops EXCEPT ![i].pc = "send",
                                      ![i].sleep = NoSleep,
                                      ![i].batch = Snapshot(buffer)]
            /\ sent' = Append(sent, [device_id |-> FirstThermostat(data),
                                     readings |-> Snapshot(buffer)])
       ELSE /\ loops' = [loops EXCEPT ![i].sleep = NewSleep(flush_interval)]
            /\ UNCHANGED sent
    /\ buffer' = Cleared(buffer)
    /\ append_size' = 0
    /\ last' = IF buffer # << >> /\ data = << >> THEN NoGateway ELSE Other
    /\ UNCHANGED << options, reload, retired, enabled, batch_size, flush_interval, listeners, flush_task,
                    data, starts, nstarts, flushes, clock >>
LoopWake(i) ==
    /\ i \in DOMAIN loops
    /\ loops[i].pc = "sleep"
    /\ Due(loops[i].sleep, flush_interval)
    /\ IF buffer # << >> /\ data # << >>
       THEN /\ loops' = [loops EXCEPT ![i].pc = "send",
                                      ![i].sleep = NoSleep,
                                      ![i].batch = Snapshot(buffer)]
            /\ buffer' = Cleared(buffer)
            /\ append_size' = 0
            /\ sent' = Append(sent, [device_id |-> FirstThermostat(data),
                                     readings |-> Snapshot(buffer)])
       ELSE /\ loops' = [loops EXCEPT ![i].sleep = NewSleep(flush_interval)]
            /\ UNCHANGED << buffer, append_size, sent >>
    /\ last' = IF buffer # << >> /\ data = << >> THEN NoGateway ELSE Other
    /\ UNCHANGED << options, reload, retired, enabled, batch_size, flush_interval, listeners, flush_task,
                    data, starts, nstarts, flushes, clock >>

\* ---- the loop's send call finishes (lines 202-206, then line 162) --------
LoopSendDone(i, outcome) ==
    /\ i \in DOMAIN loops
    /\ loops[i].pc = "send"
    /\ loops' = IF outcome = "raise"
                THEN [loops EXCEPT ![i].pc = "crashed", ![i].batch = << >>]
                ELSE [loops EXCEPT ![i].pc = "sleep", ![i].batch = << >>,
                                   ![i].sleep = NewSleep(flush_interval)]
    /\ buffer' = AfterSend(outcome, loops[i].batch, buffer)
    /\ UNCHANGED append_size
    /\ last' = Failure(outcome)
    /\ UNCHANGED << options, reload, retired, enabled, batch_size, flush_interval, listeners, flush_task,
                    data, starts, nstarts, flushes, sent, clock >>

\* ---- one tick of time passes ---------------------------------------------
\* time passes only while some coroutine sleeps and none of them is due
Sleeping == {i \in DOMAIN loops : loops[i].pc = "sleep"}

Tick ==
    /\ starts # << >> \/ Sleeping # {}
    /\ \A i \in DOMAIN starts : starts[i].left > 0
    /\ \A i \in Sleeping : ~Due(loops[i].sleep, flush_interval)
    /\ starts' = [i \in DOMAIN starts |-> [starts[i] EXCEPT !.left = @ - 1]]
    /\ loops' = [i \in DOMAIN loops |->
                    IF loops[i].pc = "sleep"
                    THEN [loops[i] EXCEPT !.sleep.slept = @ + 1]
                    ELSE loops[i]]
    /\ last' = Other
    /\ UNCHANGED << options, reload, retired, enabled, batch_size, flush_interval, buffer, append_size, listeners,
                    flush_task, data, nstarts, flushes, sent, clock >>

\* ---- the manager as the integration drives it: started once by
\* ---- async_setup_entry, stopped by async_unload_entry ---------------------
FlushRaw == {"21.5", STATE_UNKNOWN}
FlushSnaps == {SnapEmpty, SnapOne}

Init == InitWith(MinBatch..MaxBatch, {MinInterval}, FlushSnaps)

Next ==
    \/ \E on \in BOOLEAN : SetSwitch(on)
    \/ \E native \in NativeValues(MinBatch, MaxBatch) :
          SetNumber("telemetry_batch_size", native)
    \/ \E snap \in FlushSnaps : DataUpdate(snap)
    \/ Stop
    \/ StartCall(SetupStarts)
    \/ \E i \in 1..Len(starts) : StartResume(i)
    \/ \E k \in 1..Len(listeners), raw \in FlushRaw : OnStateChange(k, raw, MaxEvents)
    \/ \E i \in 1..Len(flushes) : FlushRun(i)
    \/ \E i \in 1..Len(flushes), outcome \in Outcomes : FlushSendDone(i, outcome)
    \/ \E i \in 1..Len(loops) : LoopBegin(i)
    \/ \E i \in 1..Len(loops) : LoopWake(i)
    \/ \E i \in 1..Len(loops), outcome \in Outcomes : LoopSendDone(i, outcome)
    \/ Tick

Spec == Init /\ [][Next]_vars

\* ---- the manager's own interface: repeated and overlapping start() -------
InitLife == InitWith({MinBatch}, {MinInterval}, Snapshots)

\* (the settings stay as the options gave them)
NextLife ==
    \/ \E snap \in Snapshots : DataUpdate(snap)
    \/ Stop
    \/ StartCall(MaxStarts)
    \/ \E i \in 1..Len(starts) : StartResume(i)
    \/ \E k \in 1..Len(listeners), raw \in FlushRaw : OnStateChange(k, raw, FewEvents)
    \/ \E i \in 1..Len(flushes) : FlushRun(i)
    \/ \E i \in 1..Len(flushes), outcome \in Outcomes : FlushSendDone(i, outcome)
    \/ \E i \in 1..Len(loops) : LoopBegin(i)
    \/ \E i \in 1..Len(loops) : LoopWake(i)
    \/ \E i \in 1..Len(loops), outcome \in Outcomes : LoopSendDone(i, outcome)
    \/ Tick

SpecLife == InitLife /\ [][NextLife]_vars

\* ---- the timer: flush_interval changed while the loop sleeps -------------
InitTimer == InitWith({MinBatch}, MinInterval..MaxInterval, {SnapOne})

NextTimer ==
    \/ \E on \in BOOLEAN : SetSwitch(on)
    \/ \E interval \in MinInterval..MaxInterval :
          SetNumber("telemetry_flush_interval", Tenths(interval))
    \/ Stop
    \/ StartCall(SetupStarts)
    \/ \E i \in 1..Len(starts) : StartResume(i)
    \/ \E k \in 1..Len(listeners), raw \in FlushRaw : OnStateChange(k, raw, FewEvents)
    \/ \E i \in 1..Len(flushes) : FlushRun(i)
    \/ \E i \in 1..Len(flushes), outcome \in Outcomes : FlushSendDone(i, outcome)
    \/ \E i \in 1..Len(loops) : LoopBegin(i)
    \/ \E i \in 1..Len(loops) : LoopWake(i)
    \/ \E i \in 1..Len(loops), outcome \in Outcomes : LoopSendDone(i, outcome)
    \/ Tick

SpecTimer == InitTimer /\ [][NextTimer]_vars

\* ---- the normalizer: one subscription, every kind of state ---------------
InitNorm == InitWith({MinBatch}, {MinInterval}, {SnapOne})

NextNorm ==
    \/ Stop
    \/ StartCall(SetupStarts)
    \/ \E i \in 1..Len(starts) : StartResume(i)
    \/ \E k \in 1..Len(listeners), raw \in RawStates : OnStateChange(k, raw, FewEvents)
    \/ \E i \in 1..Len(flushes) : FlushRun(i)
    \/ \E i \in 1..Len(flushes), outcome \in Outcomes : FlushSendDone(i, outcome)
    \/ \E i \in 1..Len(loops) : LoopBegin(i)
    \/ \E i \in 1..Len(loops) : LoopWake(i)
    \/ \E i \in 1..Len(loops), outcome \in Outcomes : LoopSendDone(i, outcome)
    \/ Tick

SpecNorm == InitNorm /\ [][NextNorm]_vars

\* ---- the settings entities: options that may lack keys -------------------
InitConfig ==
    InitFrom(OptionsOver(SUBSET OptionKeys, MinBatch..MaxBatch,
                         MinInterval..MaxInterval), {SnapOne})

NextConfig ==
    \/ \E on \in BOOLEAN : SetSwitch(on)
    \/ \E native \in NativeValues(MinBatch, MaxBatch) :
          SetNumber("telemetry_batch_size", native)
    \/ \E interval \in MinInterval..MaxInterval :
          SetNumber("telemetry_flush_interval", Tenths(interval))
    \/ Stop
    \/ StartCall(SetupStarts)
    \/ \E i \in 1..Len(starts) : StartResume(i)
    \/ \E k \in 1..Len(listeners), raw \in FlushRaw : OnStateChange(k, raw, FewEvents)
    \/ \E i \in 1..Len(flushes) : FlushRun(i)
    \/ \E i \in 1..Len(flushes), outcome \in Outcomes : FlushSendDone(i, outcome)
    \/ \E i \in 1..Len(loops) : LoopBegin(i)
    \/ \E i \in 1..Len(loops) : LoopWake(i)
    \/ \E i \in 1..Len(loops), outcome \in Outcomes : LoopSendDone(i, outcome)
    \/ Tick

SpecConfig == InitConfig /\ [][NextConfig]_vars

\* ---- a manager that stays running, under a fair event loop ---------------
\* The asyncio event loop runs every task that is ready, a sleep ends when its
\* time has passed and every request ends (ClientTimeout in _request): each
\* step of a started coroutine is taken eventually.  Calls from outside
\* (start, events) carry no such obligation.
InitFair == InitWith(MinBatch..MaxBatch, {MinInterval}, {SnapOne})

NextFair ==
    \/ StartCall(SetupStarts)
    \/ \E i \in 1..Len(starts) : StartResume(i)
    \/ \E k \in 1..Len(listeners), raw \in FlushRaw : OnStateChange(k, raw, MaxEvents)
    \/ \E i \in 1..Len(flushes) : FlushRun(i)
    \/ \E i \in 1..Len(flushes), outcome \in Outcomes : FlushSendDone(i, outcome)
    \/ \E i \in 1..Len(loops) : LoopBegin(i)
    \/ \E i \in 1..Len(loops) : LoopWake(i)
    \/ \E i \in 1..Len(loops), outcome \in Outcomes : LoopSendDone(i, outcome)
    \/ Tick

SpecFair ==
    /\ InitFair
    /\ [][NextFair]_vars
    /\ WF_vars(\E i \in 1..Len(starts) : StartResume(i))
    /\ WF_vars(\E i \in 1..Len(flushes) : FlushRun(i))
    /\ WF_vars(\E i \in 1..Len(flushes), outcome \in Outcomes : FlushSendDone(i, outcome))
    /\ WF_vars(\E i \in 1..Len(loops) : LoopBegin(i))
    /\ WF_vars(\E i \in 1..Len(loops) : LoopWake(i))
    /\ WF_vars(\E i \in 1..Len(loops), outcome \in Outcomes : LoopSendDone(i, outcome))
    /\ WF_vars(Tick)

\* ---- the reload an options change triggers --------------------------------
\* hass.config_entries.async_update_entry fires the update listener when the
\* options differ (helpers.py 31-32); _async_update_listener reloads the
\* entry (__init__.py 164-166): async_unload_entry stops the manager (131-138)
\* and async_setup_entry makes a coordinator, refreshes it, constructs a
\* manager from entry.options and starts it in a background task (33-77).
\* The manager replaced is kept in retired with the tasks it had scheduled:
\* buffer and flushes are its state, lost the buffer it had at the reload.
\* The async_start of the old manager, a background task of the entry, ends
\* with the unload; sends in flight go on and are kept in flushes.
Scheduled(task) == task.pc = "scheduled"
Sending(task) == task.pc = "send"

\* (a variant whose unload flushes the buffer before stopping)
ReloadFlushing(limit, snaps) ==
    /\ reload
    /\ Len(retired) < limit
    /\ reload' = FALSE
    /\ retired' = Append(retired, [buffer |-> << >>, lost |-> buffer,
                                   flushes |-> SelectSeq(flushes, Scheduled)])
    /\ loops' = CancelFlushTask(loops, flush_task)
    /\ flush_task' = 0
    /\ flushes' = SelectSeq(flushes, Sending)
    /\ sent' = IF buffer = << >> \/ data = << >> THEN sent
               ELSE Append(sent, [device_id |-> FirstThermostat(data),
                                  readings |-> Snapshot(buffer)])
    /\ data' \in snaps
    /\ enabled' = Setting(options, "telemetry_enabled", DefaultEnabled)
    /\ batch_size' = Whole(Setting(options, "telemetry_batch_size",
                                   Tenths(DefaultBatch)))
    /\ flush_interval' = Whole(Setting(options, "telemetry_flush_interval",
                                       Tenths(DefaultInterval)))
    /\ buffer' = << >>
    /\ append_size' = 0
    /\ listeners' = << >>
    /\ starts' = << >>
    /\ nstarts' = 0
    /\ last' = Reloaded
    /\ UNCHANGED << options, clock >>

Reload(limit, snaps) ==
    /\ reload
    /\ Len(retired) < limit
    /\ reload' = FALSE
    /\ retired' = Append(retired, [buffer |-> buffer, lost |-> buffer,
                                   flushes |-> SelectSeq(flushes, Scheduled)])
    /\ loops' = CancelFlushTask(loops, flush_task)
    /\ flush_task' = 0
    /\ flushes' = SelectSeq(flushes, Sending)
    /\ data' \in snaps
    /\ enabled' = Setting(options, "telemetry_enabled", DefaultEnabled)
    /\ batch_size' = Whole(Setting(options, "telemetry_batch_size",
                                   Tenths(DefaultBatch)))
    /\ flush_interval' = Whole(Setting(options, "telemetry_flush_interval",
                                       Tenths(DefaultInterval)))
    /\ buffer' = << >>
    /\ append_size' = 0
    /\ listeners' = << >>
    /\ starts' = << >>
    /\ nstarts' = 0
    /\ last' = Reloaded
    /\ UNCHANGED << options, sent, clock >>

\* ---- a count-triggered async_flush task of a replaced manager runs
\* ---- (lines 190-202): it works on the buffer of that manager ------------
RetiredFlushRun(m, i) ==
    /\ m \in DOMAIN retired
    /\ i \in DOMAIN retired[m].flushes
    /\ IF retired[m].buffer = << >>
       THEN /\ retired' = [retired EXCEPT ![m].flushes = Remove(@, i)]
            /\ UNCHANGED << flushes, sent >>
       ELSE /\ retired' = [retired EXCEPT ![m].flushes = Remove(@, i),
                                          ![m].buffer = Cleared(@)]
            /\ flushes' = Append(flushes,
                                 [retired[m].flushes[i] EXCEPT
                                     !.pc = "send",
                                     !.batch = Snapshot(retired[m].buffer)])
            /\ sent' = Append(sent, [device_id |-> retired[m].flushes[i].device_id,
                                     readings |-> Snapshot(retired[m].buffer)])
    /\ last' = Other
    /\ UNCHANGED << options, reload, enabled, batch_size, flush_interval, buffer,
                    append_size, listeners, flush_task, data, starts, nstarts,
                    loops, clock >>

\* ---- the entry while its batch size is changed and it is reloaded --------
InitReload == InitWith(MinBatch..MaxBatch, {MinInterval}, {SnapOne})

NextReload ==
    \/ \E native \in NativeValues(MinBatch, MaxBatch) :
          SetNumber("telemetry_batch_size", native)
    \/ Reload(MaxReloads, {SnapOne})
    \/ StartCall(SetupStarts)
    \/ \E i \in 1..Len(starts) : StartResume(i)
    \/ \E k \in 1..Len(listeners) : OnStateChange(k, "21.5", FewEvents)
    \/ \E i \in 1..Len(flushes) : FlushRun(i)
    \/ \E i \in 1..Len(flushes), outcome \in Outcomes : FlushSendDone(i, outcome)
    \/ \E m \in 1..Len(retired) :
          \E i \in 1..Len(retired[m].flushes) : RetiredFlushRun(m, i)
    \/ \E i \in 1..Len(loops) : LoopBegin(i)
    \/ \E i \in 1..Len(loops) : LoopWake(i)
    \/ \E i \in 1..Len(loops), outcome \in Outcomes : LoopSendDone(i, outcome)
    \/ Tick

SpecReload == InitReload /\ [][NextReload]_vars

\* ======================= properties ========================================
Range(seq) == {seq[i] : i \in DOMAIN seq}

\* the batches whose send call is in flight
InFlight ==
    {flushes[i].batch : i \in {j \in DOMAIN flushes : flushes[j].pc = "send"}}
    \cup {loops[i].batch : i \in {j \in DOMAIN loops : loops[j].pc = "send"}}

\* every reading passed to a send call so far
SentReadings == UNION {Range(sent[i].readings) : i \in DOMAIN sent}

\* C1: the batch a flush passes to the send call is exactly the buffer at the
\* drain step and the buffer is empty right after it; a reading appended
\* while a send is in flight goes to the buffer and into no batch in flight,
\* and the batches in flight and the calls already made stay as they were.
C1_DrainIsExact ==
    [][ /\ (Len(sent') > Len(sent)) =>
              /\ Len(sent') = Len(sent) + 1
              /\ SubSeq(sent', 1, Len(sent)) = sent
              /\ sent'[Len(sent')].readings = buffer
              /\ buffer # << >>
              /\ buffer' = << >>
        /\ (Len(buffer') = Len(buffer) + 1) =>
              /\ SubSeq(buffer', 1, Len(buffer)) = buffer
              /\ sent' = sent
              /\ InFlight' = InFlight
              /\ \A b \in InFlight' : buffer'[Len(buffer')] \notin Range(b)
      ]_vars

\* a count-triggered and a time-triggered send are both in flight and a reading
\* that arrived after both drains waits in the buffer
C1_Witness ==
    /\ \E i \in DOMAIN flushes : flushes[i].pc = "send"
    /\ \E i \in DOMAIN loops : loops[i].pc = "send"
    /\ buffer # << >>
    /\ \A b \in InFlight : \A r \in Range(b) : r.timestamp < buffer[1].timestamp

\* C2: no reading is passed to the send capability twice, neither in two send
\* calls nor twice in one.
C2_AtMostOnce ==
    /\ \A i, j \in DOMAIN sent :
          i # j => Range(sent[i].readings) \cap Range(sent[j].readings) = {}
    /\ \A i \in DOMAIN sent :
          Cardinality(Range(sent[i].readings)) = Len(sent[i].readings)

\* three sends were made, one of them failed by raising and two overlap in flight
C2_Witness ==
    /\ Len(sent) = 3
    /\ last.op = "send_failed" /\ last.info = 2
    /\ Cardinality(InFlight) = 2

\* C3: when a send fails the drained batch is not put back: finishing the
\* flush leaves the buffer as it was, holding only readings that were never
\* sent, and no later send call carries a reading of an earlier call.
C3_FailedBatchIsDropped ==
    [][ /\ (last'.op = "send_failed") =>
              /\ buffer' = buffer
              /\ sent' = sent
              /\ Range(buffer') \cap SentReadings' = {}
        /\ (Len(sent') > Len(sent)) =>
              Range(sent'[Len(sent')].readings) \cap SentReadings = {}
      ]_vars

\* a send has just failed, the buffer holds a reading appended after the drain,
\* and a later send has gone out without the lost batch
C3_Witness ==
    /\ last.op = "send_failed"
    /\ Len(sent) >= 2
    /\ buffer # << >>
    /\ \A r \in SentReadings : r.timestamp < buffer[1].timestamp

\* C4: async_flush absorbs every send failure: no async_flush call, made by a
\* count-triggered task or by the periodic loop, ends by raising to its caller
\* (no state is reached by a send error leaving async_flush).
C4_FlushAbsorbsFailures == ~(last.op = "send_failed" /\ last.info = 2)

\* C5: until stop() cancels it, the periodic loop held by the timer handle
\* keeps cycling whatever the outcome of its flushes: it is waiting to start,
\* sleeping, or inside a send.
C5_LoopSurvivesFlush ==
    flush_task # 0 => loops[flush_task].pc \in Live

\* C6: an event handled while enabled is false appends no reading, schedules
\* no flush and causes no send.
C6_DisabledIgnoresEvents ==
    [][ (clock' # clock /\ ~enabled) =>
            /\ buffer' = buffer
            /\ flushes' = flushes
            /\ sent' = sent
      ]_vars

\* telemetry is disabled and an event with a numeric state has just been
\* handled; one more reading would have reached the batch size
C6_Witness ==
    /\ last.op = "event_ignored"
    /\ ~enabled
    /\ Len(buffer) + 1 >= batch_size
    /\ buffer # << >>

\* C7: an accepted event schedules a flush task exactly when the buffer length
\* after the append is at least batch_size, and nothing else schedules one.
C7_CountTrigger ==
    [][ /\ (Len(buffer') = Len(buffer) + 1) =>
              /\ (Len(flushes') = Len(flushes) + 1) <=> (Len(buffer') >= batch_size)
              /\ (Len(flushes') # Len(flushes) + 1) => flushes' = flushes
              /\ (Len(flushes') = Len(flushes) + 1) =>
                    /\ SubSeq(flushes', 1, Len(flushes)) = flushes
                    /\ flushes'[Len(flushes')].pc = "scheduled"
        /\ (Len(flushes') > Len(flushes)) => Len(buffer') = Len(buffer) + 1
      ]_vars

\* with batch_size 2 the second reading has just been appended and the only
\* flush task is the one scheduled by it: the first reading scheduled none
C7_Witness ==
    /\ batch_size = 2
    /\ Len(buffer) = batch_size
    /\ clock = 2
    /\ sent = << >>
    /\ Len(flushes) = 1 /\ flushes[1].pc = "scheduled"

\* sensors of the snapshot that have a local source
Resolvable(ths) ==
    UNION {{<< ths[t].id, ths[t].sensors_map[k].id >> :
              k \in {n \in DOMAIN ths[t].sensors_map :
                        ths[t].sensors_map[n].meta_local_id # ""
                        \/ ths[t].sensors_map[n].local_id # ""}} :
           t \in DOMAIN ths}

\* C8: when a start() that no other start() overlapped completes, there is
\* exactly one subscription for each sensor of the snapshot it read that has a
\* local source, and no other subscription.
C8_RestartRebuilds ==
    [][ (last'.op = "start_done" /\ last'.info = 0) =>
            /\ Len(listeners') = Cardinality(Resolvable(data))
            /\ {<< listeners'[k].thermostat, listeners'[k].sensor >> :
                    k \in DOMAIN listeners'} = Resolvable(data)
      ]_vars

\* the second start() has completed on a snapshot with one mapped sensor; the
\* buffered reading shows that the first start() had subscribed sensor S3,
\* which is no longer in the snapshot
C8_Witness ==
    /\ last.op = "start_done" /\ last.info = 0
    /\ nstarts = 2
    /\ data = SnapOne
    /\ Len(listeners) = 1 /\ listeners[1].sensor = "S1"
    /\ buffer # << >> /\ buffer[1].device_id = "S3"

\* C9: every stop() leaves no subscription and no timer handle, and a stop()
\* of a stopped manager changes nothing.
C9_StopIdempotent ==
    [][ (last'.op = "stop") =>
            /\ listeners' = << >>
            /\ flush_task' = 0
            /\ (listeners = << >> /\ flush_task = 0) =>
                  UNCHANGED << options, enabled, batch_size, flush_interval, buffer,
                               listeners, flush_task, data, starts, nstarts,
                               loops, flushes, sent, clock >>
      ]_vars

\* stop() has just been called on a manager that an earlier stop() had stopped
\* while it was running with two subscriptions
C9_Witness ==
    /\ last.op = "stop" /\ last.info = 1
    /\ \E i \in DOMAIN loops : loops[i].pc = "cancelled"
    /\ \E i \in DOMAIN sent : sent[i].device_id = "T2"

\* C10: a sleep of the periodic loop lasts the flush_interval read when it
\* began: a change of flush_interval leaves the loop's sleep as it is, the
\* loop wakes up after exactly that many ticks, and a sleep that begins takes
\* the value flush_interval has then.
C10_IntervalReadAtSleep ==
    [][ \A i \in DOMAIN loops :
          /\ (flush_interval' # flush_interval) => loops'[i] = loops[i]
          /\ (loops[i].pc = "sleep" /\ loops'[i] # loops[i]
                /\ loops'[i].pc # "cancelled"
                /\ loops'[i].sleep.slept # loops[i].sleep.slept + 1) =>
                loops[i].sleep.slept = loops[i].sleep.dur
          /\ (loops'[i].pc = "sleep" /\ loops'[i].sleep.slept = 0
                /\ loops'[i] # loops[i]) =>
                loops'[i].sleep.dur = flush_interval
      ]_vars

\* the loop is in the middle of a sleep that began under another interval
C10_Witness ==
    \E i \in DOMAIN loops :
        /\ loops[i].pc = "sleep"
        /\ loops[i].sleep.slept > 0
        /\ loops[i].sleep.slept < loops[i].sleep.dur
        /\ loops[i].sleep.dur # flush_interval

\* C11: update_settings changes the three settings and nothing else: the
\* subscriptions, the timer handle and the loop tasks, the buffer, the
\* scheduled flush tasks and the sends made stay as they were, also when it
\* switches telemetry off or lowers batch_size to the buffer length or below.
C11_SettingsOnly ==
    [][ (<< enabled', batch_size', flush_interval' >>
              # << enabled, batch_size, flush_interval >>) =>
            UNCHANGED << buffer, listeners, flush_task, data, starts, nstarts,
                         loops, flushes, sent, clock >>
      ]_vars

\* telemetry has been switched off and batch_size lowered to the buffer
\* length: the subscriptions are still registered, the loop is still alive,
\* and no flush was scheduled or made
C11_Witness ==
    /\ ~enabled
    /\ listeners # << >>
    /\ flush_task # 0 /\ loops[flush_task].pc \in Live
    /\ buffer # << >> /\ Len(buffer) >= batch_size
    /\ flushes = << >>
    /\ sent = << >>

\* the value the normalizer is to give for each state, in tenths
ExpectedValue(raw) ==
    CASE raw = "on" -> 10
      [] raw = "off" -> 0
      [] raw = "21.5" -> 215
      [] OTHER -> Rejected

\* C12: with telemetry enabled, an event with no new state, with state
\* unavailable or unknown, or with a state that is neither on, off nor a
\* number appends nothing, schedules no flush and sends nothing; an event with
\* state on, off or a number appends exactly one reading, with value 1.0, 0.0
\* or the number.
C12_Normalizer ==
    [][ \A k \in DOMAIN listeners, raw \in RawStates :
          (enabled /\ OnStateChange(k, raw, FewEvents)) =>
              IF ExpectedValue(raw) = Rejected
              THEN buffer' = buffer /\ flushes' = flushes /\ sent' = sent
              ELSE buffer' = Append(buffer, [device_id |-> listeners[k].sensor,
                                             value |-> ExpectedValue(raw),
                                             timestamp |-> clock'])
      ]_vars

\* an event with state off has been accepted: the buffer holds the reading 0.0
C12_Witness ==
    /\ enabled
    /\ clock = 1
    /\ Len(buffer) = 1
    /\ buffer[1].value = 0

\* the triples (thermostat, sensor, local entity) the snapshot defines
ValidEntries(ths) ==
    UNION {{[thermostat |-> ths[t].id,
             sensor |-> ths[t].sensors_map[n].id,
             entity |-> IF ths[t].sensors_map[n].meta_local_id # ""
                        THEN ths[t].sensors_map[n].meta_local_id
                        ELSE ths[t].sensors_map[n].local_id] :
              n \in {m \in DOMAIN ths[t].sensors_map :
                        ths[t].sensors_map[m].meta_local_id # ""
                        \/ ths[t].sensors_map[m].local_id # ""}} :
           t \in DOMAIN ths}

\* C13: a subscription registered by a start() is bound to a thermostat T,
\* one of its sensors S and the local entity E of S as the snapshot gives
\* them; a reading appended by the subscription carries device_id S (not E)
\* and the time of the event, the flush task the event schedules targets T,
\* and the send of that task goes to T.
C13_ReadingIdentity ==
    [][ /\ (last'.op = "start_done") =>
              \A k \in (Len(listeners) + 1)..Len(listeners') :
                  listeners'[k] \in ValidEntries(data)
        /\ \A k \in DOMAIN listeners, raw \in RawStates :
              (OnStateChange(k, raw, FewEvents) /\ Len(buffer') > Len(buffer)) =>
                  /\ buffer'[Len(buffer')].device_id = listeners[k].sensor
                  /\ buffer'[Len(buffer')].device_id # listeners[k].entity
                  /\ buffer'[Len(buffer')].timestamp = clock'
                  /\ (Len(flushes') > Len(flushes)) =>
                        flushes'[Len(flushes')].device_id = listeners[k].thermostat
        /\ \A i \in DOMAIN flushes :
              (FlushRun(i) /\ Len(sent') > Len(sent)) =>
                  sent'[Len(sent')].device_id = flushes[i].device_id
      ]_vars

\* two sensors of two thermostats share the local entity e1; the event
\* delivered to the subscription of S3 has appended a reading of S3 and
\* scheduled a flush for S3's thermostat T2
C13_Witness ==
    /\ Len(buffer) = 1 /\ buffer[1].device_id = "S3"
    /\ Len(flushes) = 1 /\ flushes[1].device_id = "T2"
    /\ \E k \in DOMAIN listeners :
          listeners[k].sensor = "S1" /\ listeners[k].entity = "e1"

\* C14: when the periodic loop wakes with readings in the buffer and a
\* thermostat in the snapshot, it makes exactly one send call, which carries
\* the whole buffer and targets the first thermostat of the snapshot as it is
\* at that moment, and it leaves the buffer empty.
C14_FlushAllTarget ==
    [][ \A i \in DOMAIN loops :
          (loops[i].pc = "sleep" /\ loops'[i].pc = "send") =>
              /\ buffer # << >> /\ data # << >>
              /\ sent' = Append(sent, [device_id |-> data[1].id,
                                       readings |-> buffer])
              /\ buffer' = << >>
      ]_vars

\* the loop is sending a reading of sensor S3, which start() subscribed from a
\* snapshot whose first thermostat was T2, to T1, the first thermostat of the
\* snapshot at the time of the flush
C14_Witness ==
    /\ sent # << >>
    /\ sent[Len(sent)].device_id = "T1"
    /\ sent[Len(sent)].readings[1].device_id = "S3"
    /\ \E i \in DOMAIN loops :
          loops[i].pc = "send" /\ loops[i].batch = sent[Len(sent)].readings

\* C15: stop() cancels the periodic loop the timer handle holds, whether the
\* loop has not begun, sleeps or is inside a send; the loop ends as cancelled,
\* not by an error, and a cancelled loop never acts again: it never drains the
\* buffer and never starts another send.
C15_StopCancelsLoop ==
    [][ /\ (last'.op = "stop" /\ flush_task # 0 /\ loops[flush_task].pc \in Live) =>
              loops'[flush_task].pc = "cancelled"
        /\ \A i \in DOMAIN loops :
              (loops[i].pc = "cancelled") =>
                  /\ i \in DOMAIN loops'
                  /\ loops'[i] = loops[i]
      ]_vars

\* stop() has just cancelled the loop in the middle of a send, and a reading
\* that arrived after the loop's drain is left in the buffer
C15_Witness ==
    /\ last.op = "stop" /\ last.info = 0
    /\ \E i \in DOMAIN loops : loops[i].pc = "cancelled" /\ loops[i].batch # << >>
    /\ buffer # << >>

\* the settings a manager constructed from the options would have are the
\* settings of the running manager
Mirror ==
    /\ Setting(options, "telemetry_enabled", DefaultEnabled) = enabled
    /\ Setting(options, "telemetry_batch_size", Tenths(DefaultBatch))
          = Tenths(batch_size)
    /\ Setting(options, "telemetry_flush_interval", Tenths(DefaultInterval))
          = Tenths(flush_interval)

\* the values the entities pass to async_update_telemetry_config
ConfigValues(key) ==
    IF key = "telemetry_enabled" THEN BOOLEAN
    ELSE IF key = "telemetry_batch_size"
         THEN {Tenths(n) : n \in MinBatch..MaxBatch}
         ELSE {Tenths(n) : n \in MinInterval..MaxInterval}

\* C16: the persisted options mirror the manager's settings before and after
\* every step; a call of async_update_telemetry_config sets the manager's
\* setting for its key and options[key] to the given value and leaves the
\* other two settings and the other option keys as they were.
C16_OptionsMirror ==
    [][ /\ Mirror
        /\ Mirror'
        /\ \A key \in OptionKeys :
              \A value \in ConfigValues(key) :
                UpdateTelemetryConfig(key, value) =>
                  /\ options'[key] = value
                  /\ \A k \in DOMAIN options \ {key} :
                        k \in DOMAIN options' /\ options'[k] = options[k]
                  /\ DOMAIN options' = DOMAIN options \cup {key}
                  /\ IF key = "telemetry_enabled"
                     THEN enabled' = value
                          /\ UNCHANGED << batch_size, flush_interval >>
                     ELSE IF key = "telemetry_batch_size"
                     THEN Tenths(batch_size') = value
                          /\ UNCHANGED << enabled, flush_interval >>
                     ELSE Tenths(flush_interval') = value
                          /\ UNCHANGED << enabled, batch_size >>
      ]_vars

\* the options never held a batch size, so the manager runs with the default;
\* the loop sleeps for the default interval it read before the interval
\* entity stored another one
C16_Witness ==
    /\ "telemetry_batch_size" \notin DOMAIN options
    /\ batch_size = DefaultBatch
    /\ "telemetry_flush_interval" \in DOMAIN options
    /\ flush_interval # DefaultInterval
    /\ \E i \in DOMAIN loops :
          loops[i].pc = "sleep" /\ loops[i].sleep.dur = DefaultInterval

\* C17: the buffer is empty whenever a start() of the manager completes.
C17_BufferEmptyAtStart ==
    last.op = "start_done" => buffer = << >>

\* C17 as amended: the buffer is empty when the first start() of a manager
\* completes (no loop task exists before that); neither part of a start()
\* changes the buffer, so the readings buffered before a later start() are
\* still there when it completes.
C17_StartKeepsBuffer ==
    [][ /\ (nstarts' # nstarts) => buffer' = buffer
        /\ (last'.op = "start_done") =>
              /\ buffer' = buffer
              /\ (loops = << >>) => buffer = << >>
      ]_vars

\* the second start() of the manager has completed and the buffer still holds
\* a reading taken by a subscription of the first
C17_Witness ==
    /\ last.op = "start_done"
    /\ nstarts = 2
    /\ starts = << >>
    /\ buffer # << >>
    /\ sent = << >>

\* C18: in a manager that stays running on a snapshot with a thermostat,
\* under a fair event loop, every reading in the buffer is eventually passed
\* to the send capability, whether or not the batch size is ever reached.
C18_TimeTriggerLiveness ==
    \A t \in 1..MaxEvents :
        (\E r \in Range(buffer) : r.timestamp = t)
            ~> (\E r \in SentReadings : r.timestamp = t)

\* C19: when any start() has just completed, overlapped by another start()
\* or not, the subscriptions are exactly one for each sensor of the current
\* snapshot that has a local source: none twice, none of an older snapshot.
C19_SubscriptionsMatchSnapshot ==
    (last.op = "start_done") =>
        /\ Len(listeners) = Cardinality(Resolvable(data))
        /\ {<< listeners[k].thermostat, listeners[k].sensor >> :
                k \in DOMAIN listeners} = Resolvable(data)

RECURSIVE Readings(_)
Readings(calls) ==
    IF calls = << >> THEN << >>
    ELSE Head(calls).readings \o Readings(Tail(calls))

Handled == Readings(sent) \o buffer

\* C21: the batches sent, in the order they were drained, followed by the
\* buffer list the readings in the order their events were handled: a step
\* either leaves that sequence as it is or adds the reading of the event just
\* handled at its end.
C21_OrderPreserved ==
    [][ \/ Handled' = Handled
        \/ /\ Len(Handled') = Len(Handled) + 1
           /\ SubSeq(Handled', 1, Len(Handled)) = Handled
           /\ clock' = clock + 1
           /\ Handled'[Len(Handled')].timestamp = clock'
      ]_vars

\* two send calls have been made, the first with two readings, and a third
\* reading is in the second or in the buffer
C21_Witness ==
    /\ Len(sent) >= 2
    /\ Len(sent[1].readings) = 2
    /\ Len(Handled) = 3

\* C22: no send call carries an empty batch; a count-triggered flush that
\* finds the buffer empty ends without a send call, and a wake-up of the loop
\* that finds it empty goes back to sleep without one; neither changes the
\* buffer, the settings, the subscriptions or the timer handle.
C22_NoEmptySend ==
    [][ /\ \A n \in DOMAIN sent' : sent'[n].readings # << >>
        /\ \A i \in DOMAIN flushes :
              (FlushRun(i) /\ buffer = << >>) =>
                  /\ flushes' = Remove(flushes, i)
                  /\ UNCHANGED << options, enabled, batch_size, flush_interval,
                                  buffer, listeners, flush_task, data, starts,
                                  nstarts, loops, sent, clock >>
        /\ \A i \in DOMAIN loops :
              (LoopWake(i) /\ buffer = << >>) =>
                  /\ loops'[i].pc = "sleep"
                  /\ UNCHANGED << options, enabled, batch_size, flush_interval,
                                  buffer, listeners, flush_task, data, starts,
                                  nstarts, flushes, sent, clock >>
      ]_vars

\* three events were accepted, so at least two flush tasks were scheduled;
\* one send call took all three readings and no flush task is left: a flush
\* that found the buffer empty has run
C22_Witness ==
    /\ clock = 3
    /\ Len(sent) = 1
    /\ Len(sent[1].readings) = 3
    /\ flushes = << >>
    /\ buffer = << >>

\* C23: the subscriptions a start() registers are one for each sensor whose
\* local source resolves and no other, each on the nested meta.local_id when
\* that is not empty and else on the top-level local_id; a sensor with
\* neither and a thermostat without sensors add none.
C23_MappingFallback ==
    [][ (last'.op = "start_done") =>
          LET new == SubSeq(listeners', Len(listeners) + 1, Len(listeners'))
          IN  /\ SubSeq(listeners', 1, Len(listeners)) = listeners
              /\ Range(new) = ValidEntries(data)
              /\ Len(new) = Cardinality(ValidEntries(data))
              /\ \A t \in DOMAIN data : \A n \in DOMAIN data[t].sensors_map :
                    LET sensor == data[t].sensors_map[n]
                        subs == {k \in DOMAIN new : new[k].sensor = sensor.id
                                    /\ new[k].thermostat = data[t].id}
                    IN  /\ (sensor.meta_local_id = "" /\ sensor.local_id = "")
                              => subs = {}
                        /\ (sensor.meta_local_id # "") =>
                              \A k \in subs : new[k].entity = sensor.meta_local_id
                        /\ (sensor.meta_local_id = "" /\ sensor.local_id # "") =>
                              \A k \in subs : new[k].entity = sensor.local_id
      ]_vars

\* a start() has just subscribed S3 by its top-level local_id and S1 by its
\* meta.local_id, which differs from S1's top-level one; T3 has no sensors
C23_Witness ==
    /\ last.op = "start_done" /\ last.info = 0
    /\ data = SnapTwo
    /\ Len(listeners) = 2
    /\ listeners[1] = [thermostat |-> "T2", sensor |-> "S3", entity |-> "e1"]
    /\ listeners[2] = [thermostat |-> "T1", sensor |-> "S1", entity |-> "e1"]

\* C24: a change of the coordinator snapshot leaves the subscriptions and the
\* thermostat and sensor bound to each of them as they are; the subscriptions
\* change only in a stop() or in one of the two parts of a start(), and a
\* reading taken after the change still carries the sensor bound at start().
C24_SnapshotChangeKeepsSubscriptions ==
    [][ /\ (data' # data) => listeners' = listeners
        /\ (listeners' # listeners) =>
              \/ last'.op = "stop"
              \/ last'.op = "start_done"
              \/ nstarts' # nstarts
        /\ (Len(buffer') = Len(buffer) + 1) =>
              \E k \in DOMAIN listeners' :
                  buffer'[Len(buffer')].device_id = listeners'[k].sensor
      ]_vars

\* the snapshot no longer holds sensor S3 or thermostat T2, yet the
\* subscription of S3 made by start() is still active and has taken a reading
C24_Witness ==
    /\ data = SnapOne
    /\ \E k \in DOMAIN listeners :
          listeners[k].sensor = "S3" /\ listeners[k].thermostat = "T2"
    /\ buffer # << >>
    /\ buffer[Len(buffer)].device_id = "S3"
    /\ flush_task # 0

\* C25: stop() leaves every start() that is suspended in its grace delay in
\* flight; each start() in flight resumes, whatever was called meanwhile,
\* registers its subscriptions and leaves a live periodic loop in the timer
\* handle: the manager is running after it.
C25_StopKeepsStartInFlight ==
    [][ /\ (last'.op = "stop") => starts' = starts
        /\ (last'.op = "start_done") =>
              /\ Len(starts') = Len(starts) - 1
              /\ Len(listeners') = Len(listeners) + Cardinality(ValidEntries(data))
              /\ flush_task' # 0
              /\ flush_task = 0 => loops'[flush_task'].pc \in Live
      ]_vars

\* two start() calls overlapped; the first completed and created loop 1, a
\* stop() cancelled it while the second was still in its grace delay, and the
\* second has now completed: subscriptions and a new loop are in place
C25_Witness ==
    /\ last.op = "start_done" /\ last.info = 1
    /\ nstarts = 2
    /\ starts = << >>
    /\ Len(loops) = 2
    /\ loops[1].pc = "cancelled"
    /\ flush_task = 2
    /\ listeners # << >>

\* the periodic loops that are neither cancelled nor finished
LiveLoops == {i \in DOMAIN loops : loops[i].pc \in Live}

\* C26: at most one periodic loop is live at any time, and a live loop is the
\* one the timer handle holds.
C26_AtMostOneLiveLoop ==
    /\ Cardinality(LiveLoops) <= 1
    /\ \A i \in LiveLoops : flush_task = i

\* two overlapping start() calls have both completed and only one loop was
\* created: the second found the timer handle in use
C26_Witness ==
    /\ last.op = "start_done" /\ last.info = 1
    /\ nstarts = 2
    /\ starts = << >>
    /\ Len(loops) = 1
    /\ LiveLoops = {1}

\* C27: stop() leaves the count-triggered flush tasks as they are, scheduled
\* or sending; a scheduled task that runs in a stopped manager with readings
\* in the buffer drains the buffer and makes its send call.
C27_StopKeepsCountFlush ==
    [][ /\ (last'.op = "stop") => flushes' = flushes
        /\ \A i \in DOMAIN flushes :
              (FlushRun(i) /\ listeners = << >> /\ flush_task = 0
                  /\ buffer # << >>) =>
                  /\ sent' = Append(sent, [device_id |-> flushes[i].device_id,
                                           readings |-> buffer])
                  /\ buffer' = << >>
                  /\ flushes'[i].pc = "send"
      ]_vars

\* stop() has just stopped a running manager; a flush task scheduled before it
\* is still waiting to run and the buffer holds the readings it will send
C27_Witness ==
    /\ last.op = "stop" /\ last.info = 0
    /\ \E i \in DOMAIN flushes : flushes[i].pc = "scheduled"
    /\ buffer # << >>
    /\ LiveLoops = {}

\* a count-triggered flush task that has not run yet
Pending == \E i \in DOMAIN flushes : flushes[i].pc = "scheduled"

\* the buffer is not empty and its length is at least n
HoldsAtLeast(n) == buffer # << >> /\ Len(buffer) >= n

\* C28: while the buffer holds at least as many readings as the batch_size
\* in force at its most recent append, a count-triggered flush task is
\* pending; so it holds batch_size readings or more only while a flush task
\* is pending or after batch_size was lowered; and a change of the settings
\* schedules no flush, whatever the buffer length.
C28_BatchSizeInvariant ==
    [][ /\ HoldsAtLeast(append_size)' => Pending'
        /\ HoldsAtLeast(batch_size)' => (Pending' \/ batch_size' < append_size')
        /\ (<< enabled', batch_size', flush_interval' >>
                # << enabled, batch_size, flush_interval >>) => flushes' = flushes
      ]_vars

\* batch_size was lowered to the length of the buffer after its last append:
\* the buffer holds batch_size readings and no flush task exists
C28_Witness ==
    /\ buffer # << >>
    /\ Len(buffer) = batch_size
    /\ batch_size < append_size
    /\ flushes = << >>
    /\ enabled

\* C29: a wake-up of the periodic loop that finds readings in the buffer and
\* no thermostat in the coordinator snapshot makes no send call and leaves
\* the buffer as it is, the loop going back to sleep for a full interval;
\* while the snapshot has no thermostat the buffer is emptied, and a send
\* call made, only by a count-triggered flush task.
C29_EmptySnapshotKeepsBuffer ==
    [][ /\ \A i \in DOMAIN loops :
              (LoopWake(i) /\ buffer # << >> /\ data = << >>) =>
                  /\ buffer' = buffer /\ sent' = sent /\ flushes' = flushes
                  /\ loops' = [loops EXCEPT ![i].sleep = NewSleep(flush_interval)]
        /\ (data = << >> /\ (Len(buffer') < Len(buffer) \/ sent' # sent)) =>
              \E i \in DOMAIN flushes :
                  /\ flushes[i].pc = "scheduled" /\ flushes'[i].pc = "send"
                  /\ sent' = Append(sent, [device_id |-> flushes[i].device_id,
                                           readings |-> buffer])
                  /\ buffer' = << >>
      ]_vars

\* the loop has just woken up with a reading in the buffer and a snapshot
\* without thermostats: the reading is still buffered, nothing was ever sent
\* and the loop sleeps again
C29_Witness ==
    /\ last = NoGateway
    /\ data = << >>
    /\ buffer # << >>
    /\ sent = << >>
    /\ flush_task # 0 /\ loops[flush_task].pc = "sleep"
    /\ loops[flush_task].sleep.slept = 0

\* the readings of the managers replaced so far that were in their buffers
\* when they were replaced
Lost == UNION {Range(retired[m].lost) : m \in DOMAIN retired}

\* C30 (as stated): no reading that was in the buffer of the old manager when
\* a reload replaced it is ever passed to the send capability.
C30_LostNeverSent == \A r \in Lost : r \notin Range(Readings(sent))

\* C30: a change of the options makes the update listener due; the reload
\* makes no send call, replaces the manager by one built from the options
\* with an empty buffer, no subscription and no timer, and stops the old one;
\* afterwards the readings the old manager had buffered are passed to the
\* send capability only by a count-triggered flush task that manager had
\* scheduled before the reload and that had not run yet: without such a task
\* they are never sent.
C30_ReloadLosesUnflushed ==
    [][ /\ options' # options => reload'
        /\ last'.op = "reload" =>
              /\ reload /\ ~reload'
              /\ sent' = sent
              /\ buffer' = << >> /\ listeners' = << >> /\ flush_task' = 0
              /\ \A i \in DOMAIN loops' : loops'[i].pc \notin {"new", "sleep"}
              /\ batch_size' = Whole(options["telemetry_batch_size"])
              /\ retired'[Len(retired')].buffer = buffer
        /\ \A m \in DOMAIN retired :
              /\ retired[m].flushes = << >> => retired'[m] = retired[m]
              /\ retired'[m].buffer # retired[m].buffer =>
                    /\ retired'[m].buffer = << >>
                    /\ \E i \in DOMAIN retired[m].flushes :
                          sent' = Append(sent,
                                         [device_id |-> retired[m].flushes[i].device_id,
                                          readings |-> retired[m].buffer])
              /\ (retired[m].buffer = retired[m].lost /\ retired[m].lost # << >>) =>
                    \A r \in Range(retired[m].lost) :
                        r \notin Range(Readings(sent))
      ]_vars

\* the entry was reloaded while the old manager held a reading and had no
\* flush task scheduled; the new manager has been started since and runs
\* with its timer, and the reading of the old one has not been sent
C30_Witness ==
    /\ retired # << >>
    /\ retired[1].lost # << >>
    /\ retired[1].flushes = << >>
    /\ retired[1].buffer = retired[1].lost
    /\ last.op = "start_done"
    /\ listeners # << >> /\ buffer = << >>
    /\ flush_task # 0 /\ loops[flush_task].pc = "new"
    /\ sent = << >>

====
